---- MODULE Spec2Model ----
(***************************************************************************)
(* Inter-location transfer workflow of TuStockYa                           *)
(* (app/modules/transfers, app/modules/warehouse).                         *)
(*                                                                         *)
(* Every HTTP request runs in its own database session.  A handler reads   *)
(* rows, checks them in Python and then issues unconditional UPDATEs, each *)
(* followed by a commit, so the steps of two requests interleave between   *)
(* a read and the write that depends on it.  Each handler is therefore a   *)
(* short sequence of steps (pc) executed by a request slot of `calls`.     *)
(* The store is taken to accept every column the services write.  One      *)
(* product reference and one size are modelled, so a variant is named by   *)
(* its location.                                                           *)
(***************************************************************************)
EXTENDS Integers, Sequences, FiniteSets, TLC

VARIABLES transfers, products, product_sizes, inventory_changes, calls,
          decremented, incremented, now, transport_incidents, listing

vars == <<transfers, products, product_sizes, inventory_changes, calls,
          decremented, incremented, now,
                   transport_incidents, listing>>

\* now is the clock read by datetime.utcnow(); it moves only in the
\* specifications that take Tick steps (ListSpec, ClockSpec).
\* transport_incidents is the table of the couriers' incident reports.
\* listing is the last answer of a queue listing: which query it was and the
\* ids of its rows in the order returned.
\* decremented[t] and incremented[t] are history: how many writes made for
\* transfer t lowered, respectively raised, the quantity held in stock rows.

\* ---------------------------------------------------------------- bounds
MaxTransfers == 2
MaxCalls == 2
MaxQty == 2
MaxStock == 3
MaxChanges == 1
MaxReversals == 1
MaxLedgerReversals == 3
MaxIncidents == 2
MaxTime == 1
ConcTransfers == 1
SeqTransfers == 1
InitStock == 2

\* ----------------------------------------------------- users, locations
Locations == {"L1", "L2"}
Vendors == {"v1", "v2"}
Keepers == {"k1", "k2"}
Couriers == {"c1", "c2"}
UserLoc == [v1 |-> "L2", v2 |-> "L1", k1 |-> "L1", k2 |-> "L2"]

NULL == -1
NoUser == "none"
Procs == 1..MaxCalls
TransferIds == 1..MaxTransfers
Quantities == 1..MaxQty
Purposes == {"cliente", "restock"}

\* -------------------------------------------------------- request slots
Idle == [op |-> "none", pc |-> "idle", tid |-> 0, actor |-> NoUser,
         flag |-> FALSE, rq |-> 0, loc |-> "L1", mode |-> "none",
         newq |-> 0, res |-> "none"]

Running(op, pc, tid, actor, flag, rq) ==
    [op |-> op, pc |-> pc, tid |-> tid, actor |-> actor, flag |-> flag,
     rq |-> rq, loc |-> "L1", mode |-> "none", newq |-> 0, res |-> "none"]

\* A finished request: the slot keeps which operation ran, on which row,
\* and the response.
Done(c, res) ==
    [op |-> c.op, pc |-> "done", tid |-> c.tid, actor |-> NoUser,
     flag |-> FALSE, rq |-> 0, loc |-> "L1", mode |-> "none",
     newq |-> 0, res |-> res]

\* A slot is free when it is not in the middle of a request; its last
\* response stays readable until it takes the next one.  Slots are
\* interchangeable: a new request goes to the lowest free slot.
Free(p) == calls[p].pc \in {"idle", "done"}

Accepts(p) == Free(p) /\ \A q \in 1..(p - 1) : ~Free(q)

Exists(t) == t \in 1..Len(transfers)

\* ------------------------------------------------------------ inventory
\* ProductSize row found by `.first()` for the variant at location l.
HasSize(l) == l \in products /\ Len(product_sizes[l]) > 0

Quantity(l) == IF HasSize(l) THEN Head(product_sizes[l]) ELSE 0

SetQuantity(l, q) ==
    [product_sizes EXCEPT ![l] = <<q>> \o Tail(product_sizes[l])]

check_product_availability(l) ==
    IF ~HasSize(l)
    THEN [available |-> FALSE, available_stock |-> 0]
    ELSE [available |-> Quantity(l) > 0, available_stock |-> Quantity(l)]

\* --------------------------------------------------------- transfer rows
NewTransfer(v, src, q, purpose) ==
    [requester_id |-> v, source_location_id |-> src, purpose |-> purpose,
     destination_location_id |-> UserLoc[v], quantity |-> q,
     status |-> "pending", warehouse_keeper_id |-> NoUser,
     courier_id |-> NoUser, requested_at |-> now, accepted_at |-> NULL,
     courier_accepted_at |-> NULL, picked_up_at |-> NULL,
     delivered_at |-> NULL, confirmed_reception_at |-> NULL,
     cancelled_at |-> NULL, received_quantity |-> NULL]

Merge(row, upd) ==
    [f \in DOMAIN row |-> IF f \in DOMAIN upd THEN upd[f] ELSE row[f]]

StampsFor(status, kwargs) ==
    IF status = "accepted" /\ "warehouse_keeper_id" \in DOMAIN kwargs
    THEN [accepted_at |-> now, warehouse_keeper_id |-> kwargs.warehouse_keeper_id]
    ELSE IF status = "courier_assigned" /\ "courier_id" \in DOMAIN kwargs
    THEN [courier_id |-> kwargs.courier_id, courier_accepted_at |-> now]
    ELSE IF status = "in_transit" THEN [picked_up_at |-> now]
    ELSE IF status = "delivered" THEN [delivered_at |-> now]
    ELSE IF status = "completed" THEN [confirmed_reception_at |-> now]
    ELSE [status |-> status]

Extra(kwargs) ==
    [f \in DOMAIN kwargs \ {"warehouse_keeper_id", "courier_id"} |-> kwargs[f]]

\* UPDATE transfer_requests SET ... WHERE id = t (no condition on the row).
update_transfer_status(t, status, kwargs) ==
    [transfers EXCEPT ![t] =
        Merge(Merge(Merge(@, [status |-> status]), StampsFor(status, kwargs)),
              Extra(kwargs))]

\* --------------------------------------------------------------- Init
Init ==
    /\ transfers = <<>>
    /\ products = {"L1"}
    /\ \E s \in 1..InitStock :
          product_sizes = [l \in Locations |-> IF l = "L1" THEN <<s>> ELSE <<>>]
    /\ inventory_changes = <<>>
    /\ calls = [p \in Procs |-> Idle]
    /\ decremented = [t \in TransferIds |-> 0]
    /\ incremented = [t \in TransferIds |-> 0]
    /\ now = 0
    /\ transport_incidents = <<>>
    /\ listing = [query |-> "none", ids |-> <<>>]

\* ------------------------------------------- create_transfer_request
create_transfer_request(v, src, q, purpose) ==
    /\ Len(transfers) < MaxTransfers
    /\ src # UserLoc[v]
    /\ check_product_availability(src).available
    /\ check_product_availability(src).available_stock >= q
    /\ transfers' = Append(transfers, NewTransfer(v, src, q, purpose))
    /\ UNCHANGED <<products, product_sizes, inventory_changes, calls,
                   decremented, incremented, now,
                   transport_incidents, listing>>

\* Slot p moves to a finished request with result res.
Finish(p, res) == calls' = [calls EXCEPT ![p] = Done(@, res)]

Goto(p, pc) == calls' = [calls EXCEPT ![p].pc = pc]

\* First step of a handler, its checks on the rows it has read.  When all
\* pass (err = "none") the slot goes on to step pc ...
Start(p, op, t, actor, flag, rq, err, pc) ==
    /\ Accepts(p)
    /\ err = "none"
    /\ calls' = [calls EXCEPT ![p] = Running(op, pc, t, actor, flag, rq)]
    /\ UNCHANGED <<transfers, products, product_sizes, inventory_changes,
                   decremented, incremented, now,
                   transport_incidents, listing>>

\* ... and when one fails the request ends with that HTTP error, nothing
\* written.
Refuse(p, op, t, actor, flag, rq, err) ==
    /\ Accepts(p)
    /\ err # "none"
    /\ calls' = [calls EXCEPT ![p] = Done(Running(op, "done", t, actor, flag, rq), err)]
    /\ UNCHANGED <<transfers, products, product_sizes, inventory_changes,
                   decremented, incremented, now,
                   transport_incidents, listing>>

At(p, op, pc) == calls[p].op = op /\ calls[p].pc = pc

\* ---------------------------------------------- accept_transfer_request
AcceptCheck(k, t) ==
    IF ~Exists(t) THEN "e404"
    ELSE IF transfers[t].status # "pending" THEN "e400"
    ELSE "none"

AcceptBegin(p, k, t, accepted) ==
    Start(p, "accept", t, k, accepted, 0, AcceptCheck(k, t),
          IF accepted THEN "availability" ELSE "write")

AcceptRefuse(p, k, t, accepted) ==
    Refuse(p, "accept", t, k, accepted, 0, AcceptCheck(k, t))

\* accept_transfer_request going on to the write without the stock re-check.
AcceptSkipStock(p) ==
    /\ At(p, "accept", "availability")
    /\ Goto(p, "write")
    /\ UNCHANGED <<transfers, products, product_sizes, inventory_changes,
                   decremented, incremented, now,
                   transport_incidents, listing>>

AcceptCheckStock(p) ==
    /\ At(p, "accept", "availability")
    /\ LET availability ==
               check_product_availability(transfers[calls[p].tid].source_location_id)
       IN IF ~availability.available
             \/ availability.available_stock < transfers[calls[p].tid].quantity
          THEN Finish(p, "e400_stock")
          ELSE Goto(p, "write")
    /\ UNCHANGED <<transfers, products, product_sizes, inventory_changes,
                   decremented, incremented, now,
                   transport_incidents, listing>>

AcceptWrite(p) ==
    /\ At(p, "accept", "write")
    /\ transfers' =
          IF calls[p].flag
          THEN update_transfer_status(calls[p].tid, "accepted",
                                      [warehouse_keeper_id |-> calls[p].actor])
          ELSE update_transfer_status(calls[p].tid, "cancelled",
                                      [warehouse_keeper_id |-> calls[p].actor])
    /\ Finish(p, "ok")
    /\ UNCHANGED <<products, product_sizes, inventory_changes,
                   decremented, incremented, now,
                   transport_incidents, listing>>

\* ---------------------------------------------- cancel_transfer_request
\* can_cancel_transfer without the condition on the status.
can_cancel_any_status(t, v) ==
    /\ Exists(t)
    /\ transfers[t].requester_id = v

can_cancel_transfer(t, v) ==
    /\ Exists(t)
    /\ transfers[t].requester_id = v
    /\ transfers[t].status \in {"pending", "accepted"}

CancelCheck(v, t) == IF ~can_cancel_transfer(t, v) THEN "e400" ELSE "none"

CancelBegin(p, v, t) ==
    Start(p, "cancel", t, v, FALSE, 0, CancelCheck(v, t), "write")

CancelRefuse(p, v, t) ==
    Refuse(p, "cancel", t, v, FALSE, 0, CancelCheck(v, t))

CancelWrite(p) ==
    /\ At(p, "cancel", "write")
    /\ transfers' = update_transfer_status(calls[p].tid, "cancelled",
                                           [cancelled_at |-> now])
    /\ Finish(p, "ok")
    /\ UNCHANGED <<products, product_sizes, inventory_changes,
                   decremented, incremented, now,
                   transport_incidents, listing>>

\* ----------------------------------------------- accept_courier_request
\* accept_courier_request without the check of the status.
ClaimCheckAnyStatus(c, t) ==
    IF ~Exists(t) THEN "e404" ELSE "none"

ClaimCheck(c, t) ==
    IF ~Exists(t) THEN "e404"
    ELSE IF transfers[t].status # "accepted" \/ transfers[t].courier_id # NoUser
    THEN "e409"
    ELSE "none"

ClaimBegin(p, c, t) ==
    Start(p, "claim", t, c, FALSE, 0, ClaimCheck(c, t), "write")

ClaimRefuse(p, c, t) ==
    Refuse(p, "claim", t, c, FALSE, 0, ClaimCheck(c, t))

ClaimWrite(p) ==
    /\ At(p, "claim", "write")
    /\ transfers' = update_transfer_status(calls[p].tid, "courier_assigned",
                                           [courier_id |-> calls[p].actor])
    /\ Finish(p, "ok")
    /\ UNCHANGED <<products, product_sizes, inventory_changes,
                   decremented, incremented, now,
                   transport_incidents, listing>>

\* ------------------------------------------------------- confirm_pickup
PickupCheck(c, t) ==
    IF ~Exists(t) THEN "e404"
    ELSE IF transfers[t].courier_id # c THEN "e403"
    ELSE IF transfers[t].status # "courier_assigned" THEN "e400"
    ELSE "none"

PickupBegin(p, c, t) ==
    Start(p, "pickup", t, c, FALSE, 0, PickupCheck(c, t), "write")

PickupRefuse(p, c, t) ==
    Refuse(p, "pickup", t, c, FALSE, 0, PickupCheck(c, t))

PickupWrite(p) ==
    /\ At(p, "pickup", "write")
    /\ transfers' = update_transfer_status(calls[p].tid, "in_transit",
                                           [status |-> "in_transit"])
    /\ Finish(p, "ok")
    /\ UNCHANGED <<products, product_sizes, inventory_changes,
                   decremented, incremented, now,
                   transport_incidents, listing>>

\* ----------------------------------------------------- confirm_delivery
DeliveryCheck(c, t) ==
    IF ~Exists(t) THEN "e404"
    ELSE IF transfers[t].courier_id # c THEN "e403"
    ELSE IF transfers[t].status # "in_transit" THEN "e400"
    ELSE "none"

DeliveryBegin(p, c, t, successful) ==
    Start(p, "delivery", t, c, successful, 0, DeliveryCheck(c, t), "write")

DeliveryRefuse(p, c, t, successful) ==
    Refuse(p, "delivery", t, c, successful, 0, DeliveryCheck(c, t))

\* confirm_delivery giving the units back to the source when it fails.
DeliveryWriteRestoring(p) ==
    /\ At(p, "delivery", "write")
    /\ transfers' =
          IF calls[p].flag
          THEN update_transfer_status(calls[p].tid, "delivered",
                                      [status |-> "delivered"])
          ELSE update_transfer_status(calls[p].tid, "delivery_failed",
                                      [status |-> "delivery_failed"])
    /\ product_sizes' =
          LET l == transfers[calls[p].tid].source_location_id
          IN IF ~calls[p].flag /\ HasSize(l)
             THEN SetQuantity(l, Quantity(l) + transfers[calls[p].tid].quantity)
             ELSE product_sizes
    /\ Finish(p, "ok")
    /\ UNCHANGED <<products, inventory_changes, decremented, incremented, now,
                   transport_incidents, listing>>

DeliveryWrite(p) ==
    /\ At(p, "delivery", "write")
    /\ transfers' =
          IF calls[p].flag
          THEN update_transfer_status(calls[p].tid, "delivered",
                                      [status |-> "delivered"])
          ELSE update_transfer_status(calls[p].tid, "delivery_failed",
                                      [status |-> "delivery_failed"])
    /\ Finish(p, "ok")
    /\ UNCHANGED <<products, product_sizes, inventory_changes,
                   decremented, incremented, now,
                   transport_incidents, listing>>

\* --------------------------------------------------- deliver_to_courier
\* The checks of deliver_to_courier without the one on the status.
DeliverCheckAnyStatus(k, t) ==
    IF ~Exists(t) THEN "e404"
    ELSE IF transfers[t].warehouse_keeper_id # k THEN "e403"
    ELSE "none"

DeliverCheck(k, t) ==
    IF ~Exists(t) THEN "e404"
    ELSE IF transfers[t].warehouse_keeper_id # k THEN "e403"
    ELSE IF transfers[t].status # "courier_assigned" THEN "e400"
    ELSE "none"

DeliverBegin(p, k, t, successful) ==
    Start(p, "deliver", t, k, successful, 0, DeliverCheck(k, t),
          IF successful THEN "inventory" ELSE "write")

DeliverRefuse(p, k, t, successful) ==
    Refuse(p, "deliver", t, k, successful, 0, DeliverCheck(k, t))

\* The location deliver_to_courier hands to _update_inventory_on_pickup.
PickupLocation(c) == UserLoc[c.actor]

\* _update_inventory_on_pickup, up to the check of the row it has read.
DeliverReadStock(p) ==
    /\ At(p, "deliver", "inventory")
    /\ LET l == PickupLocation(calls[p])
           q == transfers[calls[p].tid].quantity
       IN IF ~HasSize(l) \/ Quantity(l) < q
          THEN Finish(p, "e500")
          ELSE calls' = [calls EXCEPT ![p].pc = "commit", ![p].loc = l,
                                      ![p].newq = Quantity(l) - q]
    /\ UNCHANGED <<transfers, products, product_sizes, inventory_changes,
                   decremented, incremented, now,
                   transport_incidents, listing>>

\* product_size.quantity -= transfer.quantity; commit: the value computed
\* from the row as read is written back.
DeliverWriteStock(p) ==
    /\ At(p, "deliver", "commit")
    /\ product_sizes' = SetQuantity(calls[p].loc, calls[p].newq)
    /\ decremented' =
          [decremented EXCEPT ![calls[p].tid] =
              @ + IF calls[p].newq < Quantity(calls[p].loc) THEN 1 ELSE 0]
    /\ Goto(p, "write")
    /\ UNCHANGED <<transfers, products, inventory_changes, incremented, now,
                   transport_incidents, listing>>

DeliverWrite(p) ==
    /\ At(p, "deliver", "write")
    /\ transfers' =
          IF calls[p].flag
          THEN update_transfer_status(calls[p].tid, "in_transit",
                                      [status |-> "in_transit"])
          ELSE update_transfer_status(calls[p].tid, "delivery_failed",
                                      [status |-> "delivery_failed"])
    /\ Finish(p, "ok")
    /\ UNCHANGED <<products, product_sizes, inventory_changes,
                   decremented, incremented, now,
                   transport_incidents, listing>>

\* ---------------------------------------------------- confirm_reception
\* confirm_reception asking for a transfer that is still on its way.
ReceptionCheckInTransit(v, t) ==
    IF ~Exists(t) THEN "e404"
    ELSE IF transfers[t].requester_id # v THEN "e403"
    ELSE IF transfers[t].status # "in_transit" THEN "e400"
    ELSE "none"

ReceptionCheck(v, t) ==
    IF ~Exists(t) THEN "e404"
    ELSE IF transfers[t].requester_id # v THEN "e403"
    ELSE IF transfers[t].status # "delivered" THEN "e400"
    ELSE "none"

\* confirm_reception updating the stock whatever condition_ok says.
ReceptionBeginAnyCondition(p, v, t, rq, ok) ==
    Start(p, "reception", t, v, ok, rq, ReceptionCheck(v, t), "inventory")

ReceptionBegin(p, v, t, rq, ok) ==
    Start(p, "reception", t, v, ok, rq, ReceptionCheck(v, t),
          IF ok /\ rq > 0 THEN "inventory" ELSE "write")

ReceptionRefuse(p, v, t, rq, ok) ==
    Refuse(p, "reception", t, v, ok, rq, ReceptionCheck(v, t))

\* _update_inventory_on_reception, its queries: which rows exist at the
\* requester's location and what the size row holds.
ReceptionReadStock(p) ==
    /\ At(p, "reception", "inventory")
    /\ LET l == UserLoc[calls[p].actor]
       IN calls' = [calls EXCEPT
              ![p].pc = "commit",
              ![p].loc = l,
              ![p].mode = IF l \in products
                          THEN IF Len(product_sizes[l]) > 0 THEN "update"
                               ELSE "new_size"
                          ELSE IF products # {} THEN "new_product"
                               ELSE "nothing",
              ![p].newq = IF HasSize(l) THEN Quantity(l) + calls[p].rq
                          ELSE calls[p].rq]
    /\ UNCHANGED <<transfers, products, product_sizes, inventory_changes,
                   decremented, incremented, now,
                   transport_incidents, listing>>

\* confirm_reception going on to the status write without the stock write.
ReceptionSkipStock(p) ==
    /\ At(p, "reception", "commit")
    /\ Goto(p, "write")
    /\ UNCHANGED <<transfers, products, product_sizes, inventory_changes,
                   decremented, incremented, now,
                   transport_incidents, listing>>

\* The flush and commit of what the queries decided.  A second Product row
\* for the same reference and location breaks products_unique_per_location:
\* the exception is caught, the session rolled back and False returned.
ReceptionWriteStock(p) ==
    /\ At(p, "reception", "commit")
    /\ LET c == calls[p]
           l == c.loc
       IN IF c.mode = "new_product" /\ l \in products
          THEN /\ Finish(p, "e500")
               /\ UNCHANGED <<products, product_sizes, incremented>>
          ELSE /\ Goto(p, "write")
               /\ products' = IF c.mode = "new_product"
                              THEN products \cup {l} ELSE products
               /\ product_sizes' =
                     IF c.mode = "update" THEN SetQuantity(l, c.newq)
                     ELSE IF c.mode \in {"new_size", "new_product"}
                     THEN [product_sizes EXCEPT ![l] = Append(@, c.newq)]
                     ELSE product_sizes
               /\ incremented' =
                     IF \/ c.mode \in {"new_size", "new_product"}
                        \/ c.mode = "update" /\ c.newq > Quantity(l)
                     THEN [incremented EXCEPT ![c.tid] = @ + 1]
                     ELSE incremented
    /\ UNCHANGED <<transfers, inventory_changes, decremented, now,
                   transport_incidents, listing>>

ReceptionWrite(p) ==
    /\ At(p, "reception", "write")
    /\ transfers' =
          IF calls[p].flag /\ calls[p].rq > 0
          THEN update_transfer_status(calls[p].tid, "completed",
                                      [received_quantity |-> calls[p].rq])
          ELSE update_transfer_status(calls[p].tid, "reception_issues",
                                      [received_quantity |-> calls[p].rq])
    /\ Finish(p, "ok")
    /\ UNCHANGED <<products, product_sizes, inventory_changes,
                   decremented, incremented, now,
                   transport_incidents, listing>>

\* ------------------------------ process_return -> _add_to_inventory
InventoryChange(l, type, before, after, ref) ==
    [product |-> l, change_type |-> type, quantity_before |-> before,
     quantity_after |-> after, reference_id |-> ref]

\* A return in good condition received by keeper k: the stock of the
\* keeper's location grows and the change is logged.
add_to_inventory(k, q) ==
    /\ Len(inventory_changes) < MaxChanges
    /\ Quantity(UserLoc[k]) + q <= MaxStock
    /\ LET l == UserLoc[k]
       IN /\ products' = products \cup {l}
          /\ product_sizes' =
                IF HasSize(l) THEN SetQuantity(l, Quantity(l) + q)
                ELSE [product_sizes EXCEPT ![l] = Append(@, q)]
          /\ inventory_changes' =
                Append(inventory_changes,
                       InventoryChange(l, "return_addition", Quantity(l),
                                       Quantity(l) + q, NULL))
    /\ UNCHANGED <<transfers, calls, decremented, incremented, now,
                   transport_incidents, listing>>

\* ------------------------------------------ reverse_inventory_movement
ReverseCheck(id) ==
    IF id \notin 1..Len(inventory_changes) THEN "e404" ELSE "none"

\* The original movement is read, the reversal row built and the size row
\* of the movement's product queried.
ReverseBeginWithin(p, k, id, n) ==
    /\ Accepts(p)
    /\ Len(inventory_changes) < MaxChanges + n
    /\ ReverseCheck(id) = "none"
    /\ LET m == inventory_changes[id]
           l == m.product
       IN calls' = [calls EXCEPT ![p] =
              [Running("reverse", "commit", id, k, FALSE, 0) EXCEPT
                  !.loc = l,
                  !.mode = IF Len(product_sizes[l]) > 0 THEN "update"
                           ELSE "nothing",
                  !.newq = Quantity(l) + (m.quantity_before - m.quantity_after)]]
    /\ UNCHANGED <<transfers, products, product_sizes, inventory_changes,
                   decremented, incremented, now,
                   transport_incidents, listing>>

ReverseBegin(p, k, id) == ReverseBeginWithin(p, k, id, MaxReversals)

ReverseRefuse(p, k, id) ==
    Refuse(p, "reverse", id, k, FALSE, 0, ReverseCheck(id))

\* The reversal row and the restored quantity are committed together.
ReverseCommit(p) ==
    /\ At(p, "reverse", "commit")
    /\ LET m == inventory_changes[calls[p].tid]
       IN inventory_changes' =
             Append(inventory_changes,
                    InventoryChange(m.product, "reversal", m.quantity_after,
                                    m.quantity_before, calls[p].tid))
    /\ product_sizes' = IF calls[p].mode = "update"
                        THEN SetQuantity(calls[p].loc, calls[p].newq)
                        ELSE product_sizes
    /\ Finish(p, "ok")
    /\ UNCHANGED <<transfers, products, decremented, incremented, now,
                   transport_incidents, listing>>

\* ------------------------------------------------------ report_incident
\* report_incident without the check of the courier.
IncidentCheckAnyCourier(c, t) ==
    IF ~Exists(t) THEN "e404" ELSE "none"

IncidentCheck(c, t) ==
    IF ~Exists(t) THEN "e404"
    ELSE IF transfers[t].courier_id # c THEN "e403"
    ELSE "none"

IncidentBegin(p, c, t) ==
    /\ Len(transport_incidents) < MaxIncidents
    /\ Start(p, "incident", t, c, FALSE, 0, IncidentCheck(c, t), "write")

IncidentRefuse(p, c, t) ==
    Refuse(p, "incident", t, c, FALSE, 0, IncidentCheck(c, t))

\* create_transport_incident: one row added and committed.
IncidentWrite(p) ==
    /\ At(p, "incident", "write")
    /\ transport_incidents' =
          Append(transport_incidents,
                 [transfer_request_id |-> calls[p].tid,
                  courier_id |-> calls[p].actor, reported_at |-> now])
    /\ Finish(p, "ok")
    /\ UNCHANGED <<transfers, products, product_sizes, inventory_changes,
                   decremented, incremented, now, listing>>

\* ------------------------------------------------------- queue listings
\* The clock moves between requests.
Tick ==
    /\ now < MaxTime
    /\ now' = now + 1
    /\ UNCHANGED <<transfers, products, product_sizes, inventory_changes,
                   calls, decremented, incremented, transport_incidents,
                   listing>>

\* case((purpose == "cliente", 1), else_=2)
PurposeRank(t) == IF transfers[t].purpose = "cliente" THEN 1 ELSE 2

\* ORDER BY on the pairs key[t], ascending: every order of the rows that
\* never puts a row after one with a greater key (rows with equal keys
\* come in any order).
OrderBy(rows, key) ==
    {seq \in [1..Cardinality(rows) -> rows] :
        /\ \A i, j \in DOMAIN seq : i # j => seq[i] # seq[j]
        /\ \A i, j \in DOMAIN seq :
              i < j => ~(\/ key[seq[j]][1] < key[seq[i]][1]
                        \/ /\ key[seq[j]][1] = key[seq[i]][1]
                           /\ key[seq[j]][2] < key[seq[i]][2])}

\* The locations a keeper is assigned to (user_location_assignments).
AssignedLocations(k) == {UserLoc[k]}

get_pending_requests_for_warehouse(k) ==
    OrderBy({t \in 1..Len(transfers) :
                /\ transfers[t].status = "pending"
                /\ transfers[t].source_location_id \in AssignedLocations(k)},
            [t \in 1..Len(transfers) |->
                <<PurposeRank(t), transfers[t].requested_at>>])

get_accepted_requests_by_warehouse_keeper(k) ==
    OrderBy({t \in 1..Len(transfers) :
                /\ transfers[t].warehouse_keeper_id = k
                /\ transfers[t].status
                      \in {"accepted", "courier_assigned", "in_transit"}},
            [t \in 1..Len(transfers) |-> <<0, transfers[t].accepted_at>>])

get_available_requests_for_courier(c) ==
    OrderBy({t \in 1..Len(transfers) :
                \/ /\ transfers[t].status = "accepted"
                   /\ transfers[t].courier_id = NoUser
                \/ /\ transfers[t].courier_id = c
                   /\ transfers[t].status \in {"courier_assigned", "in_transit"}},
            [t \in 1..Len(transfers) |->
                <<PurposeRank(t), transfers[t].accepted_at>>])

\* A listing request answered with one of the orders the query allows.
Listed(query, answers) ==
    /\ \E seq \in answers : listing' = [query |-> query, ids |-> seq]
    /\ UNCHANGED <<transfers, products, product_sizes, inventory_changes,
                   calls, decremented, incremented, now, transport_incidents>>

ListPending(k) == Listed("pending", get_pending_requests_for_warehouse(k))

ListAccepted(k) ==
    Listed("accepted", get_accepted_requests_by_warehouse_keeper(k))

ListAvailable(c) == Listed("available", get_available_requests_for_courier(c))

\* ------------------------------------------------------------- Next
\* The steps, on transfers 1..n, of the handlers that take a transfer from
\* PENDING to the hand-off, when their first checks pass ...
HandOffStep(p, n) ==
    \/ \E k \in Keepers, t \in 1..n, a \in BOOLEAN : AcceptBegin(p, k, t, a)
    \/ AcceptCheckStock(p)
    \/ AcceptWrite(p)
    \/ \E c \in Couriers, t \in 1..n : ClaimBegin(p, c, t)
    \/ ClaimWrite(p)
    \/ \E k \in Keepers, t \in 1..n, s \in BOOLEAN : DeliverBegin(p, k, t, s)
    \/ DeliverReadStock(p)
    \/ DeliverWriteStock(p)
    \/ DeliverWrite(p)

\* ... and of every transfer handler.
TransferStep(p, n) ==
    \/ HandOffStep(p, n)
    \/ \E v \in Vendors, t \in 1..n : CancelBegin(p, v, t)
    \/ CancelWrite(p)
    \/ \E c \in Couriers, t \in 1..n : PickupBegin(p, c, t)
    \/ PickupWrite(p)
    \/ \E c \in Couriers, t \in 1..n, s \in BOOLEAN : DeliveryBegin(p, c, t, s)
    \/ DeliveryWrite(p)
    \/ \E v \in Vendors, t \in 1..n, rq \in Quantities, ok \in BOOLEAN :
          ReceptionBegin(p, v, t, rq, ok)
    \/ ReceptionReadStock(p)
    \/ ReceptionWriteStock(p)
    \/ ReceptionWrite(p)

\* The requests refused at their first check.
TransferRefusal(p, n) ==
    \/ \E k \in Keepers, t \in 1..n, a \in BOOLEAN : AcceptRefuse(p, k, t, a)
    \/ \E v \in Vendors, t \in 1..n : CancelRefuse(p, v, t)
    \/ \E c \in Couriers, t \in 1..n : PickupRefuse(p, c, t)
    \/ \E c \in Couriers, t \in 1..n, s \in BOOLEAN : DeliveryRefuse(p, c, t, s)
    \/ \E k \in Keepers, t \in 1..n, s \in BOOLEAN : DeliverRefuse(p, k, t, s)
    \/ \E v \in Vendors, t \in 1..n, rq \in Quantities, ok \in BOOLEAN :
          ReceptionRefuse(p, v, t, rq, ok)

LedgerStep(p) ==
    \/ \E k \in Keepers, id \in 1..(MaxChanges + 1) : ReverseBegin(p, k, id)
    \/ \E k \in Keepers, id \in 1..(MaxChanges + 1) : ReverseRefuse(p, k, id)
    \/ ReverseCommit(p)

CreateOf(n, purposes) ==
    /\ Len(transfers) < n
    /\ \E v \in Vendors, src \in Locations, q \in Quantities,
          purpose \in purposes :
          create_transfer_request(v, src, q, purpose)

\* The purpose of a transfer only orders the queue listings; where nothing
\* is listed the transfers are created for a client who is present.
Create(n) == CreateOf(n, {"cliente"})

\* Requests on one transfer, their steps interleaved freely.  Of the
\* requests refused at their first check, which write nothing, only the
\* courier claim's conflict is kept.
Next ==
    \/ Create(ConcTransfers)
    \/ \E p \in Procs : TransferStep(p, ConcTransfers)
    \/ \E p \in Procs, c \in Couriers, t \in 1..ConcTransfers : ClaimRefuse(p, c, t)

Spec == Init /\ [][Next]_vars

\* One request at a time, every operation and every refusal.
Quiet == \A q \in Procs : Free(q)

SeqNext ==
    \/ Quiet /\ Create(SeqTransfers)
    \/ Quiet /\ \E k \in Keepers, q \in Quantities : add_to_inventory(k, q)
    \/ TransferStep(1, SeqTransfers)
    \/ TransferRefusal(1, SeqTransfers)
    \/ \E c \in Couriers, t \in 1..SeqTransfers : ClaimRefuse(1, c, t)
    \/ LedgerStep(1)

SeqSpec == Init /\ [][SeqNext]_vars

\* Several transfers of the same variant on their way to the hand-off, the
\* steps of their requests interleaved freely.
PairNext ==
    \/ Create(MaxTransfers)
    \/ \E p \in Procs : HandOffStep(p, MaxTransfers)

PairSpec == Init /\ [][PairNext]_vars

\* One request at a time on one transfer, the courier's incident reports
\* among them.
IncidentNext ==
    \/ Quiet /\ Create(SeqTransfers)
    \/ TransferStep(1, SeqTransfers)
    \/ \E c \in Couriers, t \in 1..(SeqTransfers + 1) : IncidentBegin(1, c, t)
    \/ \E c \in Couriers, t \in 1..(SeqTransfers + 1) : IncidentRefuse(1, c, t)
    \/ IncidentWrite(1)

IncidentSpec == Init /\ [][IncidentNext]_vars

\* Transfers of both purposes created, accepted and claimed one request at
\* a time while the clock moves, and the queues listed in between.
ListNext ==
    \/ Quiet /\ CreateOf(MaxTransfers, Purposes)
    \/ Quiet /\ Tick
    \/ \E k \in Keepers, t \in TransferIds, a \in BOOLEAN : AcceptBegin(1, k, t, a)
    \/ AcceptCheckStock(1)
    \/ AcceptWrite(1)
    \/ \E c \in Couriers, t \in TransferIds : ClaimBegin(1, c, t)
    \/ ClaimWrite(1)
    \/ Quiet /\ \E k \in Keepers : ListPending(k)
    \/ Quiet /\ \E k \in Keepers : ListAccepted(k)
    \/ Quiet /\ \E c \in Couriers : ListAvailable(c)

ListSpec == Init /\ [][ListNext]_vars

\* The requests that accept and claim one transfer, their steps interleaved
\* freely while the clock moves.
ClockNext ==
    \/ Create(ConcTransfers)
    \/ Tick
    \/ \E p \in Procs :
          \/ \E k \in Keepers, t \in 1..ConcTransfers, a \in BOOLEAN :
                AcceptBegin(p, k, t, a)
          \/ AcceptCheckStock(p)
          \/ AcceptWrite(p)
          \/ \E c \in Couriers, t \in 1..ConcTransfers : ClaimBegin(p, c, t)
          \/ ClaimWrite(p)

ClockSpec == Init /\ [][ClockNext]_vars

\* The warehouse ledger alone: returns received and movements reversed, one
\* request at a time.
LedgerNext ==
    \/ Quiet /\ \E k \in Keepers, q \in Quantities : add_to_inventory(k, q)
    \/ \E k \in Keepers, id \in 1..(MaxChanges + MaxLedgerReversals) :
          ReverseBeginWithin(1, k, id, MaxLedgerReversals)
    \/ \E k \in Keepers, id \in 1..(MaxChanges + MaxLedgerReversals) :
          ReverseRefuse(1, k, id)
    \/ ReverseCommit(1)

LedgerSpec == Init /\ [][LedgerNext]_vars

\* A request that has passed its checks runs to its response.
Continue(p) ==
    \/ AcceptCheckStock(p)
    \/ AcceptWrite(p)
    \/ CancelWrite(p)
    \/ ClaimWrite(p)
    \/ PickupWrite(p)
    \/ DeliveryWrite(p)
    \/ DeliverReadStock(p)
    \/ DeliverWriteStock(p)
    \/ DeliverWrite(p)
    \/ ReceptionReadStock(p)
    \/ ReceptionWriteStock(p)
    \/ ReceptionWrite(p)
    \/ ReverseCommit(p)

\* The requests on transfer t that pass their checks and write a new
\* status without reading the stock: the requester's cancellation, the
\* courier's pickup and delivery report, the requester's reception with
\* issues.
Advance(t) ==
    \/ \E v \in Vendors : CancelBegin(1, v, t)
    \/ \E c \in Couriers : PickupBegin(1, c, t)
    \/ \E c \in Couriers, d \in BOOLEAN : DeliveryBegin(1, c, t, d)
    \/ \E v \in Vendors, rq \in Quantities : ReceptionBegin(1, v, t, rq, FALSE)

\* The actors are fair: when such a request can be made again and again,
\* one is made in the end.
ActorsFair(t) == SF_vars(Advance(t))

\* One request at a time, served to its end, with fair actors.
LiveSpec ==
    /\ SeqSpec
    /\ WF_vars(Continue(1))
    /\ \A t \in 1..SeqTransfers : ActorsFair(t)

\* =============================================================== claims
Succeeded(p, op) ==
    calls[p].pc = "done" /\ calls[p].op = op /\ calls[p].res = "ok"

\* C1: two couriers claiming the same ACCEPTED transfer at the same time
\* never both succeed; the loser gets the conflict response.
C1_OneCourierWins ==
    ~(/\ Succeeded(1, "claim")
      /\ Succeeded(2, "claim")
      /\ calls[1].tid = calls[2].tid)

\* The ten transitions of the state table of the specification.
SpecTable ==
    {<<"pending", "accepted">>, <<"pending", "cancelled">>,
     <<"accepted", "cancelled">>, <<"accepted", "courier_assigned">>,
     <<"courier_assigned", "in_transit">>, <<"in_transit", "delivered">>,
     <<"in_transit", "delivery_failed">>, <<"delivered", "completed">>,
     <<"delivered", "reception_issues">>}

\* The transitions the handlers make when requests do not overlap.
CodeTable == SpecTable \cup {<<"courier_assigned", "delivery_failed">>}

StatusChanges(table) ==
    \A t \in 1..Len(transfers) :
        transfers'[t].status # transfers[t].status
            => <<transfers[t].status, transfers'[t].status>> \in table

\* A request that ends with an error response leaves every status as it was.
RefusalsKeepStatus ==
    \A p \in Procs :
        (calls'[p] # calls[p] /\ calls'[p].pc = "done" /\ calls'[p].res # "ok")
            => \A t \in 1..Len(transfers) :
                   transfers'[t].status = transfers[t].status

C3_AtMostOnce ==
    \A t \in TransferIds : decremented[t] <= 1 /\ incremented[t] <= 1

\* C4: the quantity of every variant row is non-negative in every
\* reachable state.
C4_NonNegative ==
    \A l \in Locations :
        \A i \in 1..Len(product_sizes[l]) : product_sizes[l][i] >= 0

\* Transfer t has been handed over by its keeper and not yet delivered.
HandedOver(t) ==
    /\ Exists(t)
    /\ transfers[t].status = "in_transit"
    /\ transfers[t].picked_up_at # NULL

\* C5: of two hand-offs of different transfers whose quantity is the whole
\* stock of their common source variant, only one succeeds.
C5_OneHandOff ==
    \A t1, t2 \in TransferIds :
        (/\ t1 # t2
         /\ HandedOver(t1)
         /\ HandedOver(t2)
         /\ transfers[t1].source_location_id = transfers[t2].source_location_id
         /\ UserLoc[transfers[t1].warehouse_keeper_id]
               = transfers[t1].source_location_id
         /\ UserLoc[transfers[t2].warehouse_keeper_id]
               = transfers[t2].source_location_id)
            => ~(transfers[t1].quantity = InitStock
                 /\ transfers[t2].quantity = InitStock)

Exclusive ==
    {{"cancel", "claim"}, {"deliver", "pickup"}}

Absorbing == {"completed", "cancelled", "reception_issues"}

C8_PickupAfterHandOff ==
    [][\A c \in Couriers, t \in 1..SeqTransfers :
          (/\ Succeeded(1, "deliver")
           /\ calls[1].tid = t
           /\ HandedOver(t)
           /\ transfers[t].courier_id = c)
              => ~PickupRefuse(1, c, t)]_vars

\* C9: the stock write of a successful hand-off takes the transfer's
\* quantity from the variant at the transfer's source location and changes
\* no other variant.
C9_SourceDecrement ==
    [][\A p \in Procs :
          DeliverWriteStock(p)
              => LET t == transfers[calls[p].tid]
                 IN product_sizes' =
                        SetQuantity(t.source_location_id,
                                    Quantity(t.source_location_id) - t.quantity)]_vars

\* C10: a hand-off that finds less stock at the source than the transfer's
\* quantity answers with the insufficient-stock error, not with the error
\* of a failed inventory update, and changes neither status nor stock.
C10_InsufficientStock ==
    [][\A p \in Procs :
          (/\ DeliverReadStock(p)
           /\ Quantity(transfers[calls[p].tid].source_location_id)
                 < transfers[calls[p].tid].quantity)
              => /\ calls'[p].pc = "done"
                 /\ calls'[p].res = "e400_stock"
                 /\ UNCHANGED <<transfers, product_sizes>>]_vars

\* The stock of the source variant of the transfer of request p is short
\* of the transfer's quantity.
SourceShort(p) ==
    Quantity(transfers[calls[p].tid].source_location_id)
        < transfers[calls[p].tid].quantity

MayCancel(v, t) ==
    /\ Exists(t)
    /\ transfers[t].requester_id = v
    /\ transfers[t].status \in {"pending", "accepted"}

CancelledAfterAccept(t) ==
    /\ Exists(t)
    /\ transfers[t].status = "cancelled"
    /\ transfers[t].accepted_at # NULL

\* C13: once the requester has cancelled an ACCEPTED transfer, every accept
\* and every courier claim on it is refused with the invalid-transition
\* error (400 naming the current status), not with the conflict of a
\* transfer already claimed, and the transfer stays CANCELLED.
C13_InvalidTransitionAfterCancel ==
    [][\A p \in Procs, t \in TransferIds :
          CancelledAfterAccept(t)
              => /\ \A k \in Keepers, a \in BOOLEAN : ~AcceptBegin(p, k, t, a)
                 /\ \A c \in Couriers : ~ClaimBegin(p, c, t)
                 /\ \A k \in Keepers, a \in BOOLEAN :
                       AcceptRefuse(p, k, t, a) => calls'[p].res = "e400"
                 /\ \A c \in Couriers :
                       ClaimRefuse(p, c, t) => calls'[p].res = "e400"
                 /\ transfers'[t].status = "cancelled"]_vars

\* The destination of the transfer of request p.
Destination(p) == transfers[calls[p].tid].destination_location_id

C15_MismatchIsAnIssue ==
    [][\A p \in Procs :
          /\ \A v \in Vendors, t \in TransferIds, rq \in Quantities,
                ok \in BOOLEAN :
                (ReceptionBegin(p, v, t, rq, ok)
                 /\ (~ok \/ rq # transfers[t].quantity))
                    => calls'[p].pc = "write"
          /\ ReceptionWrite(p)
                => (transfers'[calls[p].tid].status = "completed"
                       <=> (calls[p].flag
                            /\ calls[p].rq = transfers[calls[p].tid].quantity))
          /\ (ReceptionWrite(p)
              /\ transfers'[calls[p].tid].status # "completed")
                => transfers'[calls[p].tid].status = "reception_issues"]_vars

\* C16: a confirm_reception with condition_ok = false by the requester of
\* a DELIVERED transfer is never refused: it answers success, writes
\* RECEPTION_ISSUES and received_quantity and changes no stock.
C16_IssuesNeverFail ==
    [][\A p \in Procs :
          /\ \A v \in Vendors, t \in TransferIds, rq \in Quantities :
                /\ (ReceptionRefuse(p, v, t, rq, FALSE) /\ Exists(t))
                      => (transfers[t].requester_id # v
                          \/ transfers[t].status # "delivered")
                /\ ReceptionBegin(p, v, t, rq, FALSE) => calls'[p].pc = "write"
          /\ (ReceptionWrite(p) /\ ~calls[p].flag)
                => /\ calls'[p].res = "ok"
                   /\ transfers'[calls[p].tid].status = "reception_issues"
                   /\ transfers'[calls[p].tid].received_quantity = calls[p].rq
                   /\ product_sizes' = product_sizes
                   /\ products' = products
                   /\ incremented[calls[p].tid] = 0]_vars

\* A reception with condition_ok = false has succeeded.
C16_IssuesRecorded ==
    /\ calls[1].pc = "done"
    /\ calls[1].op = "reception"
    /\ calls[1].res = "ok"
    /\ transfers[calls[1].tid].status = "reception_issues"
    /\ transfers[calls[1].tid].received_quantity \in Quantities

\* The change records a reverse_inventory_movement could name to give back
\* what the hand-off of transfer t took: records of a decrement of the
\* transfer's quantity that are neither a return nor a reversal.
HandOffRecords(t) ==
    {i \in 1..Len(inventory_changes) :
        /\ inventory_changes[i].change_type \notin {"return_addition", "reversal"}
        /\ inventory_changes[i].quantity_before
              - inventory_changes[i].quantity_after = transfers[t].quantity}

\* C17: after a hand-off decrement and a failed delivery there is a change
\* record of the hand-off, so that reverse_movement on it restores the
\* source quantity and appends a 'reversal' record referencing it.
C17_HandOffReversible ==
    \A t \in TransferIds :
        (Exists(t) /\ transfers[t].status = "delivery_failed"
            /\ decremented[t] > 0)
        => HandOffRecords(t) # {}

\* Some location holds more units after the step than before it.
StockRaised ==
    \E l \in Locations : HasSize(l)' /\ Quantity(l)' > Quantity(l)

Forbidden(p) ==
    /\ calls'[p].pc = "done"
    /\ calls'[p].res = "e403"
    /\ transfers' = transfers
    /\ product_sizes' = product_sizes
    /\ products' = products

\* C19: a transition asked by a caller who is not its authorized actor
\* (cancel or confirm_reception by another user than the requester,
\* confirm_pickup or confirm_delivery by another courier than the assigned
\* one, deliver_to_courier by another keeper than the one who accepted) is
\* never started, and is refused with Forbidden leaving everything as it was.
C19_StrangersForbidden ==
    [][\A p \in Procs, t \in TransferIds :
          Exists(t) =>
            /\ \A v \in Vendors \ {transfers[t].requester_id} :
                  /\ ~CancelBegin(p, v, t)
                  /\ CancelRefuse(p, v, t) => Forbidden(p)
                  /\ \A rq \in Quantities, ok \in BOOLEAN :
                        /\ ~ReceptionBegin(p, v, t, rq, ok)
                        /\ ReceptionRefuse(p, v, t, rq, ok) => Forbidden(p)
            /\ \A c \in Couriers \ {transfers[t].courier_id} :
                  /\ ~PickupBegin(p, c, t)
                  /\ PickupRefuse(p, c, t) => Forbidden(p)
                  /\ \A s \in BOOLEAN :
                        /\ ~DeliveryBegin(p, c, t, s)
                        /\ DeliveryRefuse(p, c, t, s) => Forbidden(p)
            /\ \A k \in Keepers \ {transfers[t].warehouse_keeper_id} :
                  \A s \in BOOLEAN :
                     /\ ~DeliverBegin(p, k, t, s)
                     /\ DeliverRefuse(p, k, t, s) => Forbidden(p)]_vars

\* C20: only a keeper of the transfer's source location gets past the
\* checks of accept_transfer_request on a PENDING transfer; the call of any
\* other keeper is refused and the transfer stays PENDING.
C20_SourceKeeperOnly ==
    [][\A p \in Procs, k \in Keepers, t \in TransferIds, a \in BOOLEAN :
          /\ AcceptBegin(p, k, t, a)
                => UserLoc[k] = transfers[t].source_location_id
          /\ (AcceptRefuse(p, k, t, a) /\ Exists(t)
                /\ transfers[t].status = "pending")
                => transfers' = transfers]_vars

\* C21: report_incident goes through only for the courier assigned to the
\* transfer; it then adds exactly one incident, of that transfer and that
\* courier, and changes neither the transfer nor any stock; a refused
\* report adds nothing.
C21_IncidentAppendOnly ==
    [][\A p \in Procs :
          /\ \A c \in Couriers, t \in 1..(SeqTransfers + 1) :
                /\ IncidentBegin(p, c, t)
                      => Exists(t) /\ transfers[t].courier_id = c
                /\ IncidentRefuse(p, c, t)
                      => /\ calls'[p].res # "ok"
                         /\ transport_incidents' = transport_incidents
                         /\ transfers' = transfers
          /\ IncidentWrite(p)
                => /\ calls'[p].res = "ok"
                   /\ Len(transport_incidents') = Len(transport_incidents) + 1
                   /\ SubSeq(transport_incidents', 1, Len(transport_incidents))
                         = transport_incidents
                   /\ LET i == transport_incidents'[Len(transport_incidents')]
                      IN /\ i.transfer_request_id = calls[p].tid
                         /\ i.courier_id = transfers[calls[p].tid].courier_id
                   /\ transfers' = transfers
                   /\ product_sizes' = product_sizes
                   /\ products' = products]_vars

\* The assigned courier has reported an incident on a transfer on its way.
C21_IncidentReported ==
    /\ calls[1].pc = "done"
    /\ calls[1].op = "incident"
    /\ calls[1].res = "ok"
    /\ Len(transport_incidents) = 1
    /\ transfers[calls[1].tid].status = "in_transit"

\* The change records of an increment of what transfer t's reception
\* received at its destination.
ReceptionRecords(t) ==
    {i \in 1..Len(inventory_changes) :
        /\ inventory_changes[i].change_type \notin {"return_addition", "reversal"}
        /\ inventory_changes[i].product = transfers[t].destination_location_id
        /\ inventory_changes[i].quantity_after
              - inventory_changes[i].quantity_before
                 = transfers[t].received_quantity}

\* C22: every stock change made by the transfer workflow is logged: a
\* transfer whose hand-off lowered the stock has exactly one decrement
\* record and a COMPLETED transfer exactly one increment record at its
\* destination.
C22_EveryMutationRecorded ==
    \A t \in TransferIds :
        Exists(t) =>
          /\ decremented[t] > 0 => Cardinality(HandOffRecords(t)) = 1
          /\ transfers[t].status = "completed"
                => Cardinality(ReceptionRecords(t)) = 1

\* C23: the stock change and the status change of a hand-off, and of a
\* reception, are one step: in no state has the stock been lowered for a
\* transfer that is not yet past COURIER_ASSIGNED, or raised for a transfer
\* that is not COMPLETED, or a transfer been COMPLETED without the raise.
C23_StockAndStatusTogether ==
    \A t \in TransferIds :
        Exists(t) =>
          /\ decremented[t] > 0
                => transfers[t].status
                      \notin {"pending", "accepted", "courier_assigned"}
          /\ incremented[t] > 0 <=> transfers[t].status = "completed"

\* The timestamp a queue orders by.
QueueStamp(query, t) ==
    IF query = "pending" THEN transfers[t].requested_at
    ELSE transfers[t].accepted_at

\* C24: in every queue listing (pending for the warehouse, accepted by the
\* keeper, available for the courier) no RESTOCK transfer comes before a
\* CLIENT_PRESENT one, and transfers of the same purpose come oldest first
\* (requested_at in the pending queue, accepted_at in the other two).
C24_ClientFirstThenOldest ==
    \A i, j \in DOMAIN listing.ids :
        i < j =>
          LET a == listing.ids[i]
              b == listing.ids[j]
          IN /\ ~(/\ transfers[a].purpose = "restock"
                  /\ transfers[b].purpose = "cliente")
             /\ transfers[a].purpose = transfers[b].purpose
                   => QueueStamp(listing.query, a) <= QueueStamp(listing.query, b)

\* The lifecycle timestamps of a transfer, in lifecycle order.
LifecycleStamps ==
    <<"requested_at", "accepted_at", "courier_accepted_at", "picked_up_at",
      "delivered_at", "confirmed_reception_at", "cancelled_at">>

C26_CourierAfterKeeper ==
    \A t \in 1..Len(transfers) :
        /\ transfers[t].courier_id # NoUser
              => /\ transfers[t].warehouse_keeper_id # NoUser
                 /\ transfers[t].accepted_at # NULL
        /\ transfers[t].status = "pending"
              => /\ transfers[t].warehouse_keeper_id = NoUser
                 /\ transfers[t].courier_id = NoUser

\* A courier's claim has been written while another request was under way.
C26_CourierAssigned ==
    /\ Exists(1)
    /\ transfers[1].courier_id # NoUser
    /\ transfers[1].status = "courier_assigned"
    /\ \E p \in Procs : ~Free(p)

\* The units held over all locations.
RECURSIVE StockOver(_)
StockOver(ls) ==
    IF ls = {} THEN 0
    ELSE LET l == CHOOSE x \in ls : TRUE
         IN Quantity(l) + StockOver(ls \ {l})

TotalStock == StockOver(Locations)

\* C27: transfers never create stock: no step of a transfer handler raises
\* the number of units held over all locations, and a COMPLETED transfer
\* was taken from its source before and did not add more to its
\* destination than its quantity.
C27_NoStockCreated ==
    /\ [][(\E p \in Procs : TransferStep(p, SeqTransfers))
             => TotalStock' <= TotalStock]_vars
    /\ [](\A t \in 1..Len(transfers) :
             transfers[t].status = "completed"
             => /\ decremented[t] > 0
                /\ transfers[t].received_quantity <= transfers[t].quantity)

\* The units promised by the transfers in ts.
RECURSIVE Committed(_)
Committed(ts) ==
    IF ts = {} THEN 0
    ELSE LET t == CHOOSE x \in ts : TRUE
         IN transfers[t].quantity + Committed(ts \ {t})

\* The accepted transfers that still wait for their hand-off at location l.
AwaitingHandOff(l) ==
    {t \in 1..Len(transfers) :
        /\ transfers[t].source_location_id = l
        /\ transfers[t].status \in {"accepted", "courier_assigned"}}

Reversals ==
    {i \in 1..Len(inventory_changes) :
        inventory_changes[i].change_type = "reversal"}

\* C29: a change record is reversed at most once: no two reversal records
\* name the same original, and no reversal record names a reversal.
C29_ReversedAtMostOnce ==
    \A i \in Reversals :
        /\ inventory_changes[i].reference_id \notin Reversals
        /\ \A j \in Reversals :
              inventory_changes[j].reference_id
                 = inventory_changes[i].reference_id => i = j

\* The statuses no handler leaves, as the claim lists them.
Final == {"completed", "cancelled", "reception_issues", "delivery_failed"}

\* Some actor's request on transfer t passes its checks and goes on to
\* write a new status without reading the stock: a rejection, a
\* cancellation, a claim, a pickup, a failed hand-off, a delivery report or
\* a reception with issues.
CanAdvance(t) ==
    \/ \E k \in Keepers : AcceptCheck(k, t) = "none"
    \/ \E v \in Vendors : CancelCheck(v, t) = "none"
    \/ \E c \in Couriers : ClaimCheck(c, t) = "none"
    \/ \E c \in Couriers : PickupCheck(c, t) = "none"
    \/ \E k \in Keepers : DeliverCheck(k, t) = "none"
    \/ \E c \in Couriers : DeliveryCheck(c, t) = "none"
    \/ \E v \in Vendors : ReceptionCheck(v, t) = "none"

====
